---- MODULE Spec2Model ----
(***************************************************************************)
(* EIP-55 checksum encoding of an account address (eth-check, src/lib.rs). *)
(*                                                                         *)
(* A text (Rust &str / String) is the sequence of its Unicode scalar       *)
(* values; its UTF-8 encoding is computed where the code works on bytes    *)
(* (len(), slicing, char_indices(), the hash input).  A byte array is a    *)
(* sequence of numbers in 0..255.                                          *)
(***************************************************************************)
EXTENDS Integers, Sequences, FiniteSets, TLC

VARIABLES input, entry, pc, result, probes, first, rel

vars == <<input, entry, pc, result, probes, first, rel>>

(***************************************************************************)
(* Bounds of the explored inputs.                                          *)
(***************************************************************************)
\* substituted characters are placed at body positions 1..MaxBadPos
MaxBadPos == 3
\* an input is the 40-character body cut short or extended by at most this
MaxLenDelta == 2

(***************************************************************************)
(* Text primitives of the Rust standard library, as the code uses them.    *)
(***************************************************************************)
\* char::len_utf8
len_utf8(c) ==
  IF c < 128 THEN 1 ELSE IF c < 2048 THEN 2 ELSE IF c < 65536 THEN 3 ELSE 4

\* the UTF-8 encoding of one char
encode_utf8(c) ==
  IF c < 128 THEN <<c>>
  ELSE IF c < 2048 THEN <<192 + (c \div 64), 128 + (c % 64)>>
  ELSE IF c < 65536 THEN
    <<224 + (c \div 4096), 128 + ((c \div 64) % 64), 128 + (c % 64)>>
  ELSE <<240 + (c \div 262144), 128 + ((c \div 4096) % 64),
         128 + ((c \div 64) % 64), 128 + (c % 64)>>

\* str::len: the length in bytes of the UTF-8 encoding
RECURSIVE str_len(_)
str_len(s) == IF s = <<>> THEN 0 ELSE len_utf8(Head(s)) + str_len(Tail(s))

\* str::as_bytes / AsRef<[u8]> for String
RECURSIVE as_bytes(_)
as_bytes(s) == IF s = <<>> THEN <<>> ELSE encode_utf8(Head(s)) \o as_bytes(Tail(s))

\* the number of leading chars of s that end exactly at byte offset n,
\* or -1 when n is not a char boundary of s (str::is_char_boundary)
chars_upto(s, n) ==
  IF \E k \in 0..Len(s) : str_len(SubSeq(s, 1, k)) = n
  THEN CHOOSE k \in 0..Len(s) : str_len(SubSeq(s, 1, k)) = n
  ELSE -1

\* char::to_lowercase: one char to its lowercase mapping (up to 3 chars).
\* Covers ASCII, Latin-1, U+0130 (which expands to two chars), the Kelvin
\* and Angstrom signs (which map into ASCII / Latin-1); every other char of
\* the explored inputs has no lowercase mapping.
char_to_lowercase(c) ==
  IF c \in 65..90 THEN <<c + 32>>
  ELSE IF c \in 192..222 /\ c # 215 THEN <<c + 32>>
  ELSE IF c = 304 THEN <<105, 775>>
  ELSE IF c = 8490 THEN <<107>>
  ELSE IF c = 8491 THEN <<229>>
  ELSE <<c>>

\* a to_lowercase that leaves the text as it is
to_lowercase_noop(s) == s

\* str::to_lowercase
RECURSIVE to_lowercase(_)
to_lowercase(s) ==
  IF s = <<>> THEN <<>> ELSE char_to_lowercase(Head(s)) \o to_lowercase(Tail(s))

\* char::to_uppercase().next() on 'a'..='f'
to_uppercase_first(c) == IF c \in 97..122 THEN c - 32 ELSE c

\* a continuation byte of UTF-8
is_cont(b) == b \in 128..191

\* the width of the well-formed UTF-8 sequence that starts bytes b, or 0
utf8_seq_width(b) ==
  LET n == Len(b)
      b1 == b[1] IN
  IF b1 < 128 THEN 1
  ELSE IF b1 \in 194..223 THEN (IF n >= 2 /\ is_cont(b[2]) THEN 2 ELSE 0)
  ELSE IF b1 \in 224..239 THEN
    (IF n >= 3 /\ is_cont(b[3])
        /\ (IF b1 = 224 THEN b[2] \in 160..191
            ELSE IF b1 = 237 THEN b[2] \in 128..159
            ELSE is_cont(b[2]))
     THEN 3 ELSE 0)
  ELSE IF b1 \in 240..244 THEN
    (IF n >= 4 /\ is_cont(b[3]) /\ is_cont(b[4])
        /\ (IF b1 = 240 THEN b[2] \in 144..191
            ELSE IF b1 = 244 THEN b[2] \in 128..143
            ELSE is_cont(b[2]))
     THEN 4 ELSE 0)
  ELSE 0

\* the char a well-formed sequence of the given width encodes
utf8_char(b, w) ==
  IF w = 1 THEN b[1]
  ELSE IF w = 2 THEN (b[1] - 192) * 64 + (b[2] - 128)
  ELSE IF w = 3 THEN (b[1] - 224) * 4096 + (b[2] - 128) * 64 + (b[3] - 128)
  ELSE (b[1] - 240) * 262144 + (b[2] - 128) * 4096 + (b[3] - 128) * 64 + (b[4] - 128)

\* std::str::from_utf8: the text, or the offset up to which the bytes are valid
RECURSIVE from_utf8_at(_, _, _)
from_utf8_at(b, done, text) ==
  IF b = <<>> THEN [ok |-> TRUE, text |-> text]
  ELSE LET w == utf8_seq_width(b) IN
    IF w = 0 THEN [ok |-> FALSE, valid_up_to |-> done]
    ELSE from_utf8_at(SubSeq(b, w + 1, Len(b)), done + w, Append(text, utf8_char(b, w)))

from_utf8(b) == from_utf8_at(b, 0, <<>>)

(***************************************************************************)
(* Keccak-f[1600] and the Keccak sponge with rate 136 and padding 0x01     *)
(* (tiny_keccak::Keccak::v256).  The state is 1600 bits, bit z of lane     *)
(* (x, y) at position 64 * (x + 5 * y) + z + 1.                            *)
(***************************************************************************)
StateBits == 1600

Rate == 136

RotationOffsets ==
  << <<0, 36, 3, 41, 18>>,
     <<1, 44, 10, 45, 2>>,
     <<62, 6, 43, 15, 61>>,
     <<28, 55, 25, 21, 56>>,
     <<27, 20, 39, 8, 14>> >>

\* the set bits of the 24 round constants
RoundConstantBits ==
  << {0}, {1,7,15}, {1,3,7,15,63}, {15,31,63}, {0,1,3,7,15}, {0,31},
     {0,7,15,31,63}, {0,3,15,63}, {1,3,7}, {3,7}, {0,3,15,31}, {1,3,31},
     {0,1,3,7,15,31}, {0,1,3,7,63}, {0,3,7,15,63}, {0,1,15,63}, {1,15,63},
     {7,63}, {1,3,15}, {1,3,31,63}, {0,7,15,31,63}, {7,15,63}, {0,31},
     {3,15,31,63} >>

\* the position of bit z of lane (x, y)
BitAt(x, y, z) == 64 * (x + 5 * y) + z + 1

\* theta: bit k of D is column (x - 1, z) xor column (x + 1, z - 1)
ThetaLeft ==
  SubSeq([k \in 1..320 |->
    64 * ((((k - 1) \div 64) + 4) % 5) + ((k - 1) % 64) + 1], 1, 320)

ThetaRight ==
  SubSeq([k \in 1..320 |->
    64 * ((((k - 1) \div 64) + 1) % 5) + ((((k - 1) % 64) + 63) % 64) + 1], 1, 320)

Theta(A) ==
  LET C == SubSeq([k \in 1..320 |->
              ((A[k] # A[k + 320]) # (A[k + 640] # A[k + 960])) # A[k + 1280]], 1, 320)
      D == SubSeq([k \in 1..320 |-> C[ThetaLeft[k]] # C[ThetaRight[k]]], 1, 320)
  IN SubSeq([k \in 1..StateBits |-> A[k] # D[((k - 1) % 320) + 1]], 1, StateBits)

\* rho and pi: lane (X, Y) of the result is lane (x, y) = ((X + 3Y) mod 5, X)
\* rotated left by its offset
RhoPiSource ==
  SubSeq([k \in 1..StateBits |->
       LET l == (k - 1) \div 64
           z == (k - 1) % 64
           X == l % 5
           Y == l \div 5
           x == (X + 3 * Y) % 5
           r == RotationOffsets[x + 1][X + 1]
       IN BitAt(x, X, (z + 64 - r) % 64)], 1, StateBits)

RhoPi(A) == SubSeq([k \in 1..StateBits |-> A[RhoPiSource[k]]], 1, StateBits)

\* chi: bit (x, y, z) is xored with ~(x + 1, y, z) /\ (x + 2, y, z)
ChiNot ==
  SubSeq([k \in 1..StateBits |->
       LET l == (k - 1) \div 64 IN
       BitAt(((l % 5) + 1) % 5, l \div 5, (k - 1) % 64)], 1, StateBits)

ChiAnd ==
  SubSeq([k \in 1..StateBits |->
       LET l == (k - 1) \div 64 IN
       BitAt(((l % 5) + 2) % 5, l \div 5, (k - 1) % 64)], 1, StateBits)

\* chi, then iota: the round constant is xored into lane (0, 0)
ChiIota(B, round) ==
  SubSeq([k \in 1..StateBits |->
       LET chi == B[k] # (~B[ChiNot[k]] /\ B[ChiAnd[k]])
       IN IF k <= 64 /\ (k - 1) \in RoundConstantBits[round] THEN ~chi ELSE chi],
     1, StateBits)

RECURSIVE KeccakF(_, _)
KeccakF(A, round) ==
  IF round > 24 THEN A
  ELSE LET next == ChiIota(RhoPi(Theta(A)), round)
       IN IF Len(next) = StateBits THEN KeccakF(next, round + 1) ELSE next

\* bit j of byte b
ByteBit(b, j) == (b \div (2 ^ j)) % 2 = 1

\* the message padded to a multiple of the rate: 0x01 ... 0x80
Pad(bytes) ==
  LET n == Len(bytes)
      total == ((n \div Rate) + 1) * Rate
  IN SubSeq([i \in 1..total |->
        IF i <= n THEN bytes[i]
        ELSE (IF i = n + 1 THEN 1 ELSE 0) + (IF i = total THEN 128 ELSE 0)], 1, total)

XorBlock(A, block) ==
  SubSeq([k \in 1..StateBits |->
     IF k <= 8 * Rate
     THEN A[k] # ByteBit(block[(k - 1) \div 8 + 1], (k - 1) % 8)
     ELSE A[k]], 1, StateBits)

RECURSIVE Absorb(_, _)
Absorb(A, padded) ==
  IF padded = <<>> THEN A
  ELSE LET next == KeccakF(XorBlock(A, SubSeq(padded, 1, Rate)), 1)
       IN IF Len(next) = StateBits
          THEN Absorb(next, SubSeq(padded, Rate + 1, Len(padded)))
          ELSE next

\* the first n <= Rate bytes of the state
Squeeze(A, n) ==
  SubSeq([i \in 1..n |->
     LET base == 8 * (i - 1) IN
       (IF A[base + 1] THEN 1 ELSE 0) + (IF A[base + 2] THEN 2 ELSE 0)
     + (IF A[base + 3] THEN 4 ELSE 0) + (IF A[base + 4] THEN 8 ELSE 0)
     + (IF A[base + 5] THEN 16 ELSE 0) + (IF A[base + 6] THEN 32 ELSE 0)
     + (IF A[base + 7] THEN 64 ELSE 0) + (IF A[base + 8] THEN 128 ELSE 0)], 1, n)

ZeroState == SubSeq([k \in 1..StateBits |-> FALSE], 1, StateBits)

\* the length of the buffer keccak256_hash hands to finalize
HashBufLen == 40

\* keccak256_hash: update with the bytes, finalize into a 40-byte buffer
keccak256_hash(address) ==
  Squeeze(Absorb(ZeroState, Pad(address)), HashBufLen)

(***************************************************************************)
(* The encoder.                                                            *)
(***************************************************************************)
\* static PREFIX: "0x"
PREFIX == <<48, 120>>

Ok(s) == [tag |-> "Ok", value |-> s]

ErrLength(n) == [tag |-> "Length", expected_either |-> <<40, 42>>, actual |-> n]

ErrPrefix(p) == [tag |-> "Prefix", expected |-> PREFIX, actual |-> p]

ErrHexChar(c, i) == [tag |-> "HexChar", value |-> c, index |-> i]

ErrUtf8(n) == [tag |-> "Utf8", valid_up_to |-> n]

\* the call does not return: a slice or an index out of range panics
Panic == [tag |-> "Panic"]

\* the low half byte taken without the mask 0x0f
half_byte_at_unmasked(array, i) ==
  IF i % 2 = 0 THEN array[i \div 2 + 1] \div 16 ELSE array[i \div 2 + 1]

\* the half byte should_be_uppercased extracts (u8 arithmetic)
half_byte_at(array, i) ==
  IF i % 2 = 0 THEN array[i \div 2 + 1] \div 16 ELSE array[i \div 2 + 1] % 16

\* the threshold compared with > instead of >=
should_be_uppercased_above(array, i) ==
  (IF i % 2 = 0 THEN array[i \div 2 + 1] \div 16 ELSE array[i \div 2 + 1] % 16) > 8

should_be_uppercased(array, i) == half_byte_at(array, i) >= 8

\* array[i / 2] is inside the array
index_in_bounds(array, i) == i \div 2 < Len(array)

\* the closure of try_fold applied over char_indices(): chars are the chars
\* not consumed yet, i the byte offset of the first of them, acc the String
\* built so far, seen the calls of should_be_uppercased made so far
RECURSIVE try_fold(_, _, _, _, _)
try_fold(hash, chars, i, acc, seen) ==
  IF chars = <<>> THEN [ret |-> Ok(acc), probes |-> seen]
  ELSE
    LET a_char == Head(chars)
        rest == Tail(chars)
        after == i + len_utf8(a_char)
    IN
    IF a_char \in 48..57 THEN try_fold(hash, rest, after, Append(acc, a_char), seen)
    ELSE IF a_char \in 97..102 THEN
      IF ~index_in_bounds(hash, i)
      THEN [ret |-> Panic, probes |-> seen \cup {[i |-> i, half_byte |-> -1]}]
      ELSE
        LET new_char == IF should_be_uppercased(hash, i)
                        THEN to_uppercase_first(a_char) ELSE a_char
            call == [i |-> i, half_byte |-> half_byte_at(hash, i)]
        IN try_fold(hash, rest, after, Append(acc, new_char), seen \cup {call})
    ELSE [ret |-> ErrHexChar(a_char, i), probes |-> seen]

\* the hash taken of the text as given, not of its lower case
to_checksum_address_hash_raw(address_string) ==
  LET lowered == to_lowercase(address_string)
      hash == keccak256_hash(as_bytes(address_string))
  IN try_fold(hash, lowered, 0, <<>>, {})

to_checksum_address(address_string) ==
  LET lowered == to_lowercase(address_string)
      hash == keccak256_hash(as_bytes(lowered))
  IN try_fold(hash, lowered, 0, <<>>, {})

\* the prefix left out of the returned string
format_unprefixed(prefix, checksummed) == checksummed

\* format!("{}{}", prefix, checksummed)
format_prefixed(prefix, checksummed) == prefix \o checksummed

Checksum_from_str(s) ==
  LET len == str_len(s) IN
  IF len = 40 THEN to_checksum_address(s)
  ELSE IF len = 42 THEN
    LET k == chars_upto(s, 2) IN
    IF k < 0 THEN [ret |-> Panic, probes |-> {}]
    ELSE
      LET prefix == SubSeq(s, 1, k)
          hash == SubSeq(s, k + 1, Len(s))
          checksummed == to_checksum_address(hash)
      IN
      IF prefix # PREFIX THEN [ret |-> ErrPrefix(prefix), probes |-> {}]
      ELSE IF checksummed.ret.tag # "Ok" THEN checksummed
      ELSE [ret |-> Ok(format_prefixed(prefix, checksummed.ret.value)),
            probes |-> checksummed.probes]
  ELSE [ret |-> ErrLength(len), probes |-> {}]

\* TryChecksum for str
try_checksum_str(self) == Checksum_from_str(self)

\* TryChecksum for String
try_checksum_String(self) == Checksum_from_str(self)

\* every byte taken as one char, without validation
try_checksum_bytes_as_chars(self) == Checksum_from_str(self)

\* TryChecksum for [u8; 40]
try_checksum_bytes(self) ==
  LET string == from_utf8(self) IN
  IF ~string.ok THEN [ret |-> ErrUtf8(string.valid_up_to), probes |-> {}]
  ELSE Checksum_from_str(string.text)

(***************************************************************************)
(* The inputs explored.                                                    *)
(***************************************************************************)
\* "e0fc04fa2d34a66b779fd5cee748268032a146c0", the address of the tests
Address1 ==
  <<101,48,102,99,48,52,102,97,50,100,51,52,97,54,54,98,55,55,57,102,
    100,53,99,101,101,55,52,56,50,54,56,48,51,50,97,49,52,54,99,48>>

\* "fb6916095ca1df60bb79ce92ce3ea74c37c5d359"
Address2 ==
  <<102,98,54,57,49,54,48,57,53,99,97,49,100,102,54,48,98,98,55,57,
    99,101,57,50,99,101,51,101,97,55,52,99,51,55,99,53,100,51,53,57>>

\* "52908400098527886e0f7030069857d2e4169ee7": 17 digits come first
Address3 ==
  <<53,50,57,48,56,52,48,48,48,57,56,53,50,55,56,56,54,101,48,102,
    55,48,51,48,48,54,57,56,53,55,100,50,101,52,49,54,57,101,101,55>>

\* chars that are no hex digit: 'Q', 'g', U+00E9 (2 bytes), U+20AC (3 bytes),
\* U+0130 (2 bytes, lowercase 3 bytes), U+212A (3 bytes, lowercase 1 byte)
SubstChars == {81, 103, 233, 8364, 304, 8490}

\* "", "0x", "0X", "ff"
Prefixes == {<<>>, PREFIX, <<48, 88>>, <<102, 102>>}

Replace(s, p, c) == [s EXCEPT ![p] = c]

\* s cut short by -d chars, or extended by d chars '0'
Resize(s, d) ==
  IF d <= 0 THEN SubSeq(s, 1, Len(s) + d) ELSE s \o [i \in 1..d |-> 48]

\* the letters of s in the given casing
Recase(s, casing) ==
  [p \in 1..Len(s) |->
     IF s[p] \in 97..102 /\ (casing = "upper" \/ (casing = "alternate" /\ p % 2 = 1))
     THEN s[p] - 32 ELSE s[p]]

\* Address3 with at most two of its first MaxBadPos chars substituted
EditedBodies ==
  {Address3}
  \cup {Replace(Address3, p, c) : p \in 1..MaxBadPos, c \in SubstChars}
  \cup {Replace(Replace(Address3, pq[1], cd[1]), pq[2], cd[2]) :
          pq \in {x \in (1..MaxBadPos) \X (1..MaxBadPos) : x[1] < x[2]},
          cd \in SubstChars \X SubstChars}

MalformedInputs ==
  {pre \o Resize(b, d) :
     pre \in Prefixes, b \in EditedBodies, d \in (0 - MaxLenDelta)..MaxLenDelta}

\* well-formed addresses in three casings, with and without the prefix
ValidInputs ==
  {pre \o Recase(a, casing) :
     pre \in {<<>>, PREFIX}, a \in {Address1, Address2, Address3},
     casing \in {"lower", "upper", "alternate"}}

\* a body of 40 bytes whose last char is no hex digit
LateBadInputs ==
  {pre \o Append(Resize(Address1, 0 - len_utf8(c)), c) :
     pre \in {<<>>, PREFIX}, c \in SubstChars}

\* "" and "abc"
ShortInputs == {<<>>, <<97, 98, 99>>}

Inputs == MalformedInputs \cup ValidInputs \cup LateBadInputs \cup ShortInputs

\* 40 hex digits, or "0x" and 40 hex digits
HexDigits == (48..57) \cup (65..70) \cup (97..102)

IsValidAddress(s) ==
  /\ Len(s) \in {40, 42}
  /\ Len(s) = 42 => SubSeq(s, 1, 2) = PREFIX
  /\ \A p \in (Len(s) - 39)..Len(s) : s[p] \in HexDigits

\* s with the letters of its last 40 chars in lower case
LowercaseBody(s) ==
  [p \in 1..Len(s) |-> IF p > Len(s) - 40 /\ s[p] \in 65..90 THEN s[p] + 32 ELSE s[p]]

(***************************************************************************)
(* State: one call of an entry point on input, and the call before it.     *)
(***************************************************************************)
NoResult == [tag |-> "None"]

NoCall == [input |-> <<>>, result |-> NoResult]

Init ==
  /\ input \in Inputs
  /\ entry = "Checksum::from_str"
  /\ pc = "ready"
  /\ result = NoResult
  /\ probes = {}
  /\ first = NoCall
  /\ rel = "first"

\* Checksum::from_str(input)
FromStr ==
  /\ pc = "ready"
  /\ entry = "Checksum::from_str"
  /\ LET r == Checksum_from_str(input) IN
       /\ result' = r.ret
       /\ probes' = r.probes
  /\ pc' = "returned"
  /\ UNCHANGED <<input, entry, first, rel>>

\* the caller encodes the same address again, spelled in lower case
CallLowercased ==
  /\ pc = "returned"
  /\ rel = "first"
  /\ IsValidAddress(input)
  /\ first' = [input |-> input, result |-> result]
  /\ input' = LowercaseBody(input)
  /\ rel' = "lowercased"
  /\ pc' = "ready"
  /\ result' = NoResult
  /\ probes' = {}
  /\ UNCHANGED entry

\* the caller encodes the address it got back
CallOnOutput ==
  /\ pc = "returned"
  /\ rel = "first"
  /\ result.tag = "Ok"
  /\ first' = [input |-> input, result |-> result]
  /\ input' = result.value
  /\ rel' = "reencoded"
  /\ pc' = "ready"
  /\ result' = NoResult
  /\ probes' = {}
  /\ UNCHANGED entry

Next == FromStr \/ CallLowercased \/ CallOnOutput

Spec == Init /\ [][Next]_vars

(***************************************************************************)
(* The TryChecksum wrappers, each called once on a text or a byte array.   *)
(***************************************************************************)
\* Address3 with at most one of its first MaxBadPos chars substituted
SingleEditBodies ==
  {Address3} \cup {Replace(Address3, p, c) : p \in 1..MaxBadPos, c \in SubstChars}

TryTexts ==
  {pre \o Resize(b, d) :
     pre \in Prefixes, b \in SingleEditBodies, d \in (0 - MaxLenDelta)..MaxLenDelta}
  \cup {pre \o Recase(Address1, casing) :
          pre \in {<<>>, PREFIX}, casing \in {"lower", "upper", "alternate"}}
  \cup LateBadInputs \cup ShortInputs

\* byte runs that are no well-formed UTF-8: 0xFF, a lone continuation byte,
\* a lead byte without its continuation, an overlong NUL, an overlong
\* 3-byte form, a surrogate, a 3-byte sequence cut after 2 bytes;
\* and one that is well-formed: U+00E9
ByteRuns ==
  {<<255>>, <<128>>, <<195>>, <<192, 128>>, <<224, 128, 128>>, <<237, 160, 128>>,
   <<226, 130>>, <<195, 169>>}

\* b with the bytes from position p on overwritten by run
Splice(b, p, run) ==
  [i \in 1..Len(b) |-> IF i \in p..(p + Len(run) - 1) THEN run[i - p + 1] ELSE b[i]]

\* the [u8; 40] values explored
ByteArrays ==
  {as_bytes(t) : t \in {s \in TryTexts : str_len(s) = 40}}
  \cup {Splice(as_bytes(Address3), p, run) : p \in 1..MaxBadPos, run \in ByteRuns}
  \cup {Splice(as_bytes(Address3), 41 - Len(run), run) : run \in ByteRuns}

InitTry ==
  /\ \/ entry \in {"str::try_checksum", "String::try_checksum"} /\ input \in TryTexts
     \/ entry = "[u8; 40]::try_checksum" /\ input \in ByteArrays
  /\ pc = "ready"
  /\ result = NoResult
  /\ probes = {}
  /\ first = NoCall
  /\ rel = "first"

Return(r) ==
  /\ result' = r.ret
  /\ probes' = r.probes
  /\ pc' = "returned"
  /\ UNCHANGED <<input, entry, first, rel>>

TryChecksumStr ==
  /\ pc = "ready"
  /\ entry = "str::try_checksum"
  /\ Return(try_checksum_str(input))

TryChecksumString ==
  /\ pc = "ready"
  /\ entry = "String::try_checksum"
  /\ Return(try_checksum_String(input))

TryChecksumBytes ==
  /\ pc = "ready"
  /\ entry = "[u8; 40]::try_checksum"
  /\ Return(try_checksum_bytes(input))

NextTry == TryChecksumStr \/ TryChecksumString \/ TryChecksumBytes

SpecTry == InitTry /\ [][NextTry]_vars

(***************************************************************************)
(* Properties.                                                             *)
(***************************************************************************)
AsciiLower(c) == IF c \in 65..90 THEN c + 32 ELSE c

LowerText(s) == [p \in 1..Len(s) |-> AsciiLower(s[p])]

\* the last 40 chars
BodyOf(s) == SubSeq(s, Len(s) - 39, Len(s))

\* the positions of the 40-char body that hold no hex digit
BadPositions(s) == {p \in 1..40 : BodyOf(s)[p] \notin HexDigits}

FirstBad(s) == CHOOSE p \in BadPositions(s) : \A q \in BadPositions(s) : p <= q

\* the input has a 40-char body: 40 chars, or "0x" and 40 chars
HasBody(s) == Len(s) = 40 \/ (Len(s) = 42 /\ SubSeq(s, 1, 2) = PREFIX)

\* the control value of position i (0-based): the high nibble of digest byte
\* i / 2 when i is even, its low nibble when i is odd
ControlNibble(digest, i) ==
  IF i % 2 = 0 THEN digest[(i \div 2) + 1] \div 16 ELSE digest[(i \div 2) + 1] % 16

\* C1: for every accepted input the output body char at position i is the
\* input's digit unchanged, or the letter a-f in upper case iff the control
\* nibble at i of the Keccak-256 digest of the lowercased body is >= 8
C1_CaseRule ==
  (pc = "returned" /\ IsValidAddress(input)) =>
    /\ result.tag = "Ok"
    /\ Len(result.value) = Len(input)
    /\ LET body == LowerText(BodyOf(input))
           digest == SubSeq(keccak256_hash(body), 1, 32)
           out == BodyOf(result.value)
       IN \A i \in 0..39 :
            out[i + 1] =
              IF body[i + 1] \in 48..57 THEN BodyOf(input)[i + 1]
              ELSE IF ControlNibble(digest, i) >= 8 THEN body[i + 1] - 32
              ELSE body[i + 1]

\* an upper-case prefixed address came back with some letters in upper case,
\* some in lower case, and one of its upper-case letters lowered
C1_Witness ==
  /\ pc = "returned"
  /\ IsValidAddress(input)
  /\ Len(input) = 42
  /\ result.tag = "Ok"
  /\ \E p \in 3..42 : result.value[p] \in 65..70
  /\ \E p \in 3..42 : input[p] \in 65..70 /\ result.value[p] \in 97..102
  /\ \E p \in 3..42 : input[p] \in 97..102 /\ result.value[p] \in 65..70

\* C2: the casing of the input's body is irrelevant: a valid input and the
\* same input with its body in lower case are encoded to the same string
C2_CaseInsensitive ==
  (pc = "returned" /\ rel = "lowercased") =>
    /\ first.result.tag = "Ok"
    /\ result = first.result

C2_Witness ==
  /\ pc = "returned"
  /\ rel = "lowercased"
  /\ first.input # input
  /\ result.tag = "Ok"
  /\ result.value # input

\* C3: when the 40-char body holds a char that is no hex digit, the call
\* fails with HexChar whose index is the 0-based position in the body of the
\* first such char and whose value is that char of the input
C3_FirstInvalidChar ==
  (pc = "returned" /\ HasBody(input) /\ BadPositions(input) # {}) =>
    result = ErrHexChar(BodyOf(input)[FirstBad(input)], FirstBad(input) - 1)

\* C4: the call never panics: it returns Ok or one of Length, Prefix, HexChar
C4_NeverPanics ==
  pc = "returned" => result.tag \in {"Ok", "Length", "Prefix", "HexChar"}

\* C5: an input of neither 40 nor 42 chars fails with Length carrying
\* [40, 42] and its length; an input of 40 or 42 chars never fails with Length
C5_LengthError ==
  pc = "returned" =>
    /\ Len(input) \notin {40, 42} => result = ErrLength(Len(input))
    /\ Len(input) \in {40, 42} => result.tag # "Length"

\* C6: an input of 42 chars whose first two chars are not "0x" fails with
\* Prefix carrying "0x" and those two chars, whatever follows; an input of
\* 40 chars never fails with Prefix
C6_PrefixError ==
  pc = "returned" =>
    /\ (Len(input) = 42 /\ SubSeq(input, 1, 2) # PREFIX) =>
         result = ErrPrefix(SubSeq(input, 1, 2))
    /\ Len(input) = 40 => result.tag # "Prefix"

\* C7: a successful call returns a string as long as the input that differs
\* from it only in the casing of the body's hex letters: the same in lower
\* case, every digit in place, and for 42 chars "0x" and the recased body
C7_OnlyCasingDiffers ==
  (pc = "returned" /\ result.tag = "Ok") =>
    /\ Len(result.value) = Len(input)
    /\ str_len(result.value) = str_len(input)
    /\ Len(input) \in {40, 42}
    /\ LowerText(result.value) = LowerText(input)
    /\ \A p \in 1..Len(input) :
         \/ result.value[p] = input[p]
         \/ /\ p > Len(input) - 40
            /\ AsciiLower(input[p]) \in 97..102
            /\ result.value[p] \in {AsciiLower(input[p]), AsciiLower(input[p]) - 32}
    /\ Len(input) = 42 =>
         /\ SubSeq(result.value, 1, 2) = PREFIX
         /\ Ok(BodyOf(result.value)) = Checksum_from_str(BodyOf(input)).ret

C7_Witness ==
  /\ pc = "returned"
  /\ result.tag = "Ok"
  /\ Len(input) = 42
  /\ result.value # input
  /\ result.value # LowerText(input)
  /\ \E p \in 3..42 : input[p] \in 48..57

\* C8: try_checksum on a str or a String returns what Checksum::from_str
\* returns on the same text; on a [u8; 40] it returns Utf8 when the bytes are
\* not valid UTF-8 and otherwise what Checksum::from_str returns on the
\* decoded text, and never Length or Prefix
C8_WrappersDelegate ==
  pc = "returned" =>
    /\ entry \in {"str::try_checksum", "String::try_checksum"} =>
         result = Checksum_from_str(input).ret
    /\ entry = "[u8; 40]::try_checksum" =>
         /\ result.tag \notin {"Length", "Prefix"}
         /\ IF from_utf8(input).ok
            THEN result = Checksum_from_str(from_utf8(input).text).ret
            ELSE result.tag = "Utf8"

\* the byte wrapper rejected an array that holds a byte outside ASCII
C8_Witness ==
  /\ pc = "returned"
  /\ entry = "[u8; 40]::try_checksum"
  /\ result.tag = "Utf8"
  /\ \E p \in 1..40 : input[p] >= 128

\* C9: encoding is idempotent on its own output: encoding the result of a
\* successful call succeeds and returns that result unchanged
C9_Idempotent ==
  (pc = "returned" /\ rel = "reencoded") =>
    /\ result.tag = "Ok"
    /\ result = first.result
    /\ result.value = input

C9_Witness ==
  /\ pc = "returned"
  /\ rel = "reencoded"
  /\ result.tag = "Ok"
  /\ first.input # input
  /\ input # LowerText(input)

\* C10: should_be_uppercased is only called with a position in 0..39, reads
\* the digest at a byte index <= 19, and extracts a nibble in 0..15, also
\* when lowercasing changes the byte length of the body
C10_ProbesInRange ==
  \A call \in probes :
    /\ call.i \in 0..39
    /\ call.i \div 2 <= 19
    /\ call.half_byte \in 0..15

\* letters were recased before a char whose lowercase has another byte length
C10_Witness ==
  /\ pc = "returned"
  /\ str_len(to_lowercase(input)) # str_len(input)
  /\ \E call \in probes : call.i >= 30

====
